---- MODULE Spec2Model ----
(***************************************************************************)
(* Model of python/analyzer/expense_analyzer.py: the CSV expense analyzer. *)
(*                                                                         *)
(* Texts (Python str) are sequences of one-character strings; the absent   *)
(* value None of an Optional[str] is the one-element sequence None, which  *)
(* no text equals.  Optional numbers and dates are records [ok, val].      *)
(* Amounts are exact decimals held as integers in units of 1/Unit.         *)
(***************************************************************************)
EXTENDS Integers, Sequences, FiniteSets, TLC

VARIABLES
    fileExists,     \* main: whether Path(args.file) exists
    argFrom,        \* main: args.date_from, a text or None
    argTo,          \* main: args.date_to, a text or None
    argExport,      \* main: whether --export PATH was given
    fieldnames,     \* the header row of the CSV file (<<>> when the file has none)
    rows,           \* the data rows of the CSV file
    pc,             \* position of the run
    date_from,      \* analyze_expenses: parsed lower bound
    date_to,        \* analyze_expenses: parsed upper bound
    readPos,        \* number of data rows the csv reader has yielded
    totals,         \* analyze_expenses: dict category -> total, in insertion order
    processed_rows, \* analyze_expenses: counter
    skipped_rows,   \* analyze_expenses: counter
    outcome,        \* history: per data row read, "skipped" or "added"
    error,          \* the exception that ended the run, or NoError
    printed,        \* what print_summary and main wrote to the console
    exportFile      \* the export CSV file, or NoFile

vars == <<fileExists, argFrom, argTo, argExport, fieldnames, rows, pc, date_from,
          date_to, readPos, totals, processed_rows, skipped_rows, outcome, error,
          printed, exportFile>>

inputs == <<fileExists, argFrom, argTo, argExport, fieldnames, rows>>

-----------------------------------------------------------------------------
(* Bounds of the model *)

\* longest amount text enumerated; also the number of fraction digits kept
MaxAmountLen == 3

\* most data rows in a file
MaxRows == 2

\* most categories in a totals mapping handed to the printer and exporter
MaxCats == 3

-----------------------------------------------------------------------------
(* Texts *)

None == <<"None">>

Range(s) == {s[i] : i \in 1..Len(s)}

RECURSIVE SeqsUpTo(_, _)
SeqsUpTo(S, n) ==
    IF n = 0 THEN {<<>>}
    ELSE LET shorter == SeqsUpTo(S, n - 1)
         IN  shorter \cup {Append(t, c) : t \in {u \in shorter : Len(u) = n - 1}, c \in S}

RECURSIVE Pow10(_)
Pow10(n) == IF n = 0 THEN 1 ELSE 10 * Pow10(n - 1)

Abs(n) == IF n < 0 THEN -n ELSE n

IsSpace(c) == c = " "

\* str.lstrip() / str.rstrip() / str.strip()
RECURSIVE LStrip(_)
LStrip(t) == IF t # <<>> /\ IsSpace(Head(t)) THEN LStrip(Tail(t)) ELSE t

RECURSIVE RStrip(_)
RStrip(t) ==
    IF t # <<>> /\ IsSpace(t[Len(t)]) THEN RStrip(SubSeq(t, 1, Len(t) - 1)) ELSE t

Strip(t) == RStrip(LStrip(t))

\* str.lower(), on the letters the model's texts use
LowerChar(c) ==
    CASE c = "A" -> "a" [] c = "C" -> "c" [] c = "D" -> "d" [] c = "E" -> "e"
      [] c = "G" -> "g" [] c = "M" -> "m" [] c = "N" -> "n" [] c = "O" -> "o"
      [] c = "R" -> "r" [] c = "T" -> "t" [] c = "U" -> "u" [] c = "Y" -> "y"
      [] OTHER -> c

Lower(t) == [i \in 1..Len(t) |-> LowerChar(t[i])]

\* (x or ""): None and "" both become ""
OrEmpty(t) == IF t = None THEN <<>> ELSE t

Digits == <<"0", "1", "2", "3", "4", "5", "6", "7", "8", "9">>

IsDigit(c) == \E i \in 1..10 : Digits[i] = c

DigitVal(c) == (CHOOSE i \in 1..10 : Digits[i] = c) - 1

AllDigits(t) == \A i \in 1..Len(t) : IsDigit(t[i])

\* int() of a text of digits
RECURSIVE DigitsVal(_)
DigitsVal(t) ==
    IF t = <<>> THEN 0 ELSE 10 * DigitsVal(SubSeq(t, 1, Len(t) - 1)) + DigitVal(t[Len(t)])

-----------------------------------------------------------------------------
(* Optional values *)

NoValue == [ok |-> FALSE, val |-> 0]

Some(v) == [ok |-> TRUE, val |-> v]

-----------------------------------------------------------------------------
(* datetime.strptime(s, "%Y-%m-%d") *)

\* str.split(sep) restricted to one-character separators
RECURSIVE Split(_, _)
Split(t, sep) ==
    IF \A i \in 1..Len(t) : t[i] # sep THEN <<t>>
    ELSE LET k == CHOOSE i \in 1..Len(t) : t[i] = sep /\ \A j \in 1..(i - 1) : t[j] # sep
         IN  <<SubSeq(t, 1, k - 1)>> \o Split(SubSeq(t, k + 1, Len(t)), sep)

IsLeap(y) == (y % 4 = 0 /\ y % 100 # 0) \/ y % 400 = 0

DaysInMonth(y, m) ==
    IF m = 2 THEN (IF IsLeap(y) THEN 29 ELSE 28)
    ELSE IF m \in {4, 6, 9, 11} THEN 30 ELSE 31

\* %Y is exactly four digits; %m and %d are one or two digits in range.
\* The value is an integer that orders dates as datetime orders them.
Strptime(t) ==
    LET parts == Split(t, "-")
    IN  IF Len(parts) # 3 THEN NoValue
        ELSE LET ys == parts[1]
                 ms == parts[2]
                 ds == parts[3]
             IN  IF ~(Len(ys) = 4 /\ AllDigits(ys)) THEN NoValue
                 ELSE IF ~(Len(ms) \in {1, 2} /\ AllDigits(ms)) THEN NoValue
                 ELSE IF ~(Len(ds) \in {1, 2} /\ AllDigits(ds)) THEN NoValue
                 ELSE LET y == DigitsVal(ys)
                          m == DigitsVal(ms)
                          d == DigitsVal(ds)
                      IN  IF y >= 1 /\ m \in 1..12 /\ d >= 1 /\ d <= DaysInMonth(y, m)
                          THEN Some(y * 10000 + m * 100 + d)
                          ELSE NoValue

\* parse_date: strip, empty -> None, else strptime or None
parse_date(date_str) ==
    LET s == Strip(OrEmpty(date_str))
    IN  IF s = <<>> THEN NoValue ELSE Strptime(s)

-----------------------------------------------------------------------------
(* float(s) and parse_amount *)

\* amounts are integers in units of 1/Unit
Unit == Pow10(MaxAmountLen)

\* float(): surrounding whitespace ignored, optional sign, digits with at most
\* one point and at least one digit.  The exponent, underscore, inf and nan
\* spellings need characters the model's texts do not contain.
PyFloat(t) ==
    LET s      == Strip(t)
        signed == s # <<>> /\ Head(s) \in {"-", "+"}
        body   == IF signed THEN Tail(s) ELSE s
        parts  == Split(body, ".")
        ip     == parts[1]
        fp     == IF Len(parts) = 2 THEN parts[2] ELSE <<>>
    IN  IF Len(parts) > 2 \/ ~AllDigits(ip) \/ ~AllDigits(fp) THEN NoValue
        ELSE IF ip = <<>> /\ fp = <<>> THEN NoValue
        \* more fraction digits than the unit holds: no text of the model has them
        ELSE IF Len(fp) > MaxAmountLen THEN NoValue
        ELSE LET mag == DigitsVal(ip) * Unit + DigitsVal(fp) * Pow10(MaxAmountLen - Len(fp))
             IN  Some(IF signed /\ Head(s) = "-" THEN -mag ELSE mag)

\* re.sub(r"[£$,]", "", s)
RECURSIVE RemoveSymbols(_)
RemoveSymbols(t) ==
    IF t = <<>> THEN <<>>
    ELSE IF Head(t) \in {"£", "$", ","} THEN RemoveSymbols(Tail(t))
    ELSE <<Head(t)>> \o RemoveSymbols(Tail(t))

\* parse_amount without the re.sub of the currency symbols and commas
parse_amount_keep_symbols(amount_str) ==
    LET s == Strip(OrEmpty(amount_str))
    IN  IF s = <<>> THEN NoValue ELSE PyFloat(s)

\* lines 24-40
parse_amount(amount_str) ==
    LET s == Strip(OrEmpty(amount_str))
    IN  IF s = <<>> THEN NoValue ELSE PyFloat(RemoveSymbols(s))

-----------------------------------------------------------------------------
(* validate_headers *)

T_date == <<"d", "a", "t", "e">>

T_category == <<"c", "a", "t", "e", "g", "o", "r", "y">>

T_amount == <<"a", "m", "o", "u", "n", "t">>

REQUIRED_HEADERS == {T_date, T_category, T_amount}

Letters == <<"a", "b", "c", "d", "e", "f", "g", "h", "i", "j", "k", "l", "m",
             "n", "o", "p", "q", "r", "s", "t", "u", "v", "w", "x", "y", "z">>

CharOrd(c) == IF \E i \in 1..26 : Letters[i] = c
              THEN CHOOSE i \in 1..26 : Letters[i] = c
              ELSE 0

\* str < str, on texts of lower-case letters
RECURSIVE TextLess(_, _)
TextLess(a, b) ==
    IF b = <<>> THEN FALSE
    ELSE IF a = <<>> THEN TRUE
    ELSE IF CharOrd(Head(a)) # CharOrd(Head(b)) THEN CharOrd(Head(a)) < CharOrd(Head(b))
    ELSE TextLess(Tail(a), Tail(b))

\* sorted(S) for a set of texts
RECURSIVE SortedTexts(_)
SortedTexts(S) ==
    IF S = {} THEN <<>>
    ELSE LET least == CHOOSE t \in S : \A u \in S \ {t} : TextLess(t, u)
         IN  <<least>> \o SortedTexts(S \ {least})

NoError == [kind |-> "none", msg |-> "", names |-> <<>>]

\* the header names compared as written: h.strip() without .lower()
validate_headers_case_sensitive(names) ==
    IF names = <<>>
    THEN [ok |-> FALSE, msg |-> "CSV file appears to be empty or missing headers.",
          names |-> <<>>]
    ELSE LET headers == {Strip(h) : h \in {x \in Range(names) : x # <<>>}}
             missing == REQUIRED_HEADERS \ headers
         IN  IF missing # {}
             THEN [ok |-> FALSE, msg |-> "Missing required CSV headers",
                   names |-> SortedTexts(missing)]
             ELSE [ok |-> TRUE, msg |-> "", names |-> <<>>]

\* the (ok, msg) pair; msg is the message's fixed text and the names it lists
validate_headers(names) ==
    IF names = <<>>
    THEN [ok |-> FALSE, msg |-> "CSV file appears to be empty or missing headers.",
          names |-> <<>>]
    ELSE LET headers == {Lower(Strip(h)) : h \in {x \in Range(names) : x # <<>>}}
             missing == REQUIRED_HEADERS \ headers
         IN  IF missing # {}
             THEN [ok |-> FALSE, msg |-> "Missing required CSV headers",
                   names |-> SortedTexts(missing)]
             ELSE [ok |-> TRUE, msg |-> "", names |-> <<>>]

-----------------------------------------------------------------------------
(* csv.DictReader *)

\* a cell of a column that is none of date, category, amount
OtherCell == <<"x">>

\* the cells of data row r (its three fields) laid out under header row names
Cells(names, r) ==
    [k \in 1..Len(names) |->
        LET col == Lower(Strip(names[k]))
        IN  IF col = T_date THEN r.date
            ELSE IF col = T_category THEN r.category
            ELSE IF col = T_amount THEN r.amount
            ELSE OtherCell]

\* dict(zip(fieldnames, cells)): a later duplicate of a name wins
DictRow(names, r) ==
    LET cells == Cells(names, r)
    IN  [h \in Range(names) |->
            cells[CHOOSE k \in 1..Len(names) :
                     names[k] = h /\ \A j \in (k + 1)..Len(names) : names[j] # h]]

\* row.get(key)
RowGet(d, key) == IF key \in DOMAIN d THEN d[key] ELSE None

-----------------------------------------------------------------------------
(* analyze_expenses *)

HasKey(tot, category) == \E i \in 1..Len(tot) : tot[i].category = category

\* totals[category] = amount: the entry is replaced instead of added to
AddTo_overwrite(tot, category, amount) ==
    IF HasKey(tot, category)
    THEN [i \in 1..Len(tot) |->
            IF tot[i].category = category
            THEN [category |-> category, amount |-> amount]
            ELSE tot[i]]
    ELSE Append(tot, [category |-> category, amount |-> amount])

\* totals[category] -= amount
AddTo_subtract(tot, category, amount) ==
    IF HasKey(tot, category)
    THEN [i \in 1..Len(tot) |->
            IF tot[i].category = category
            THEN [category |-> category, amount |-> tot[i].amount - amount]
            ELSE tot[i]]
    ELSE Append(tot, [category |-> category, amount |-> 0 - amount])

\* totals[category] += amount on a defaultdict(float), keeping insertion order
AddTo(tot, category, amount) ==
    IF HasKey(tot, category)
    THEN [i \in 1..Len(tot) |->
            IF tot[i].category = category
            THEN [category |-> category, amount |-> tot[i].amount + amount]
            ELSE tot[i]]
    ELSE Append(tot, [category |-> category, amount |-> 0 + amount])

\* the row passes the date filter (lines 89-99)
PassesFilter(date_val, from, to) ==
    IF from.ok \/ to.ok
    THEN /\ date_val.ok
         /\ ~(from.ok /\ date_val.val < from.val)
         /\ ~(to.ok /\ date_val.val > to.val)
    ELSE TRUE

\* the loop with "continue" in the date filter but no skipped_rows += 1
RowStep_filter_uncounted(acc, d, from, to) ==
    LET category == Strip(OrEmpty(RowGet(d, T_category)))
        amount   == parse_amount(RowGet(d, T_amount))
        date_val == parse_date(RowGet(d, T_date))
        counted  == [acc EXCEPT !.processed_rows = @ + 1]
        skip     == [counted EXCEPT !.skipped_rows = @ + 1,
                                    !.outcome = Append(@, "skipped")]
    IN  IF category = <<>> \/ ~amount.ok THEN skip
        ELSE IF ~PassesFilter(date_val, from, to)
        THEN [counted EXCEPT !.outcome = Append(@, "skipped")]
        ELSE [counted EXCEPT !.totals = AddTo(@, category, amount.val),
                             !.outcome = Append(@, "added")]

\* one iteration of the loop over the reader, on the loop's local state
RowStep(acc, d, from, to) ==
    LET category == Strip(OrEmpty(RowGet(d, T_category)))
        amount   == parse_amount(RowGet(d, T_amount))
        date_val == parse_date(RowGet(d, T_date))
        counted  == [acc EXCEPT !.processed_rows = @ + 1]
        skip     == [counted EXCEPT !.skipped_rows = @ + 1,
                                    !.outcome = Append(@, "skipped")]
    IN  IF category = <<>> \/ ~amount.ok THEN skip
        ELSE IF ~PassesFilter(date_val, from, to) THEN skip
        ELSE [counted EXCEPT !.totals = AddTo(@, category, amount.val),
                             !.outcome = Append(@, "added")]

EmptyAcc == [totals |-> <<>>, processed_rows |-> 0, skipped_rows |-> 0, outcome |-> <<>>]

Acc == [totals |-> totals, processed_rows |-> processed_rows,
        skipped_rows |-> skipped_rows, outcome |-> outcome]

\* lines 65-74: open the file, read the header, validate it
AnalyzeOpen ==
    /\ pc = "analyze"
    /\ totals' = <<>>
    /\ processed_rows' = 0
    /\ skipped_rows' = 0
    /\ LET v == validate_headers(fieldnames)
       IN  IF ~v.ok
           THEN /\ error' = [kind |-> "ValueError", msg |-> v.msg, names |-> v.names]
                /\ pc' = "failed"
           ELSE /\ error' = error
                /\ pc' = "loop"
    /\ UNCHANGED <<inputs, date_from, date_to, readPos, outcome, printed, exportFile>>

\* lines 76-101: one data row
AnalyzeRow ==
    /\ pc = "loop"
    /\ readPos < Len(rows)
    /\ readPos' = readPos + 1
    /\ LET next == RowStep(Acc, DictRow(fieldnames, rows[readPos + 1]), date_from, date_to)
       IN  /\ totals' = next.totals
           /\ processed_rows' = next.processed_rows
           /\ skipped_rows' = next.skipped_rows
           /\ outcome' = next.outcome
    /\ UNCHANGED <<inputs, pc, date_from, date_to, error, printed, exportFile>>

\* line 103: the reader is exhausted
AnalyzeReturn ==
    /\ pc = "loop"
    /\ readPos = Len(rows)
    /\ pc' = "returned"
    /\ UNCHANGED <<inputs, date_from, date_to, readPos, totals, processed_rows,
                   skipped_rows, outcome, error, printed, exportFile>>

-----------------------------------------------------------------------------
(* print_summary and export_summary_csv *)

\* one hundredth, in units of 1/Unit
Cent == Unit \div 100

RECURSIVE SumAmounts(_)
SumAmounts(tot) == IF tot = <<>> THEN 0 ELSE Head(tot).amount + SumAmounts(Tail(tot))

\* insert x behind every element whose amount is >= x.amount
RECURSIVE InsertDesc(_, _)
InsertDesc(sorted, x) ==
    IF sorted = <<>> THEN <<x>>
    ELSE IF Head(sorted).amount >= x.amount
         THEN <<Head(sorted)>> \o InsertDesc(Tail(sorted), x)
         ELSE <<x>> \o sorted

\* sorted(totals.items(), key=lambda x: x[1], reverse=True): stable, so items
\* of equal amount keep the order the dict holds them in
RECURSIVE SortedDesc(_)
SortedDesc(tot) ==
    IF tot = <<>> THEN <<>>
    ELSE InsertDesc(SortedDesc(SubSeq(tot, 1, Len(tot) - 1)), tot[Len(tot)])

\* n / d rounded to the nearest integer; an exact half goes up when up holds
RoundDiv(n, d, up) ==
    LET q == Abs(n) \div Abs(d)
        r == Abs(n) % Abs(d)
        m == IF 2 * r > Abs(d) \/ (2 * r = Abs(d) /\ up) THEN q + 1 ELSE q
    IN  IF (n < 0) # (d < 0) THEN -m ELSE m

IsHalf(n, d) == 2 * (Abs(n) % Abs(d)) = Abs(d)

\* the hundredths cut off instead of rounded
Format2_truncate(amount, up) ==
    IF amount < 0 THEN -(Abs(amount) \div Cent) ELSE amount \div Cent

\* f"{amount:.2f}", as a number of hundredths.  The float nearest a decimal
\* that ends in a half hundredth lies on either side of it: up says which.
Format2(amount, up) == RoundDiv(amount, Cent, up)

\* (amount / total_spent) * 100 if total_spent else 0, then f"{pct:.1f}",
\* as a number of tenths of a percent
FormatPct(amount, total_spent, up) ==
    IF total_spent # 0 THEN RoundDiv(amount * 1000, total_spent, up) ELSE 0

\* the cells of the table whose value lies exactly between two printed values
HalfCells(tot) ==
    LET total_spent == SumAmounts(tot)
    IN  {<<i, "amount">> : i \in {j \in 1..Len(tot) : IsHalf(tot[j].amount, Cent)}}
        \cup {<<i, "pct">> : i \in {j \in 1..Len(tot) :
                 total_spent # 0 /\ IsHalf(tot[j].amount * 1000, total_spent)}}
        \cup (IF IsHalf(total_spent, Cent) THEN {<<0, "amount">>} ELSE {})

\* the table rows both writers produce: (category, amount, percent)
TableRows(tot, ups) ==
    LET total_spent == SumAmounts(tot)
        items       == SortedDesc(tot)
    IN  [i \in 1..Len(items) |->
            [category |-> items[i].category,
             amount   |-> Format2(items[i].amount, <<i, "amount">> \in ups),
             pct      |-> FormatPct(items[i].amount, total_spent, <<i, "pct">> \in ups)]]

NotPrinted == [shown |-> FALSE, empty |-> FALSE, total |-> 0, lines |-> <<>>,
               processed |-> 0, skipped |-> 0]

\* lines 106-121, without the count line
print_summary(tot, ups) ==
    IF tot = <<>>
    THEN [shown |-> TRUE, empty |-> TRUE, total |-> 0, lines |-> <<>>]
    ELSE [shown |-> TRUE, empty |-> FALSE,
          total |-> Format2(SumAmounts(tot), <<0, "amount">> \in ups),
          lines |-> TableRows(tot, ups)]

NoFile == [exists |-> FALSE, header |-> <<>>, lines |-> <<>>]

ExportHeader == <<"category", "amount", "percent_of_total">>

\* the export in the dict's order, without sorted()
export_summary_csv_unsorted(tot, ups) ==
    LET total_spent == SumAmounts(tot)
    IN  [exists |-> TRUE, header |-> ExportHeader,
         lines  |-> [i \in 1..Len(tot) |->
                       [category |-> tot[i].category,
                        amount   |-> Format2(tot[i].amount, <<i, "amount">> \in ups),
                        pct      |-> FormatPct(tot[i].amount, total_spent,
                                               <<i, "pct">> \in ups)]]]

\* lines 124-135
export_summary_csv(tot, ups) ==
    [exists |-> TRUE, header |-> ExportHeader, lines |-> TableRows(tot, ups)]

-----------------------------------------------------------------------------
(* main *)

\* lines 153-155
MainCheckFile ==
    /\ pc = "main"
    /\ IF ~fileExists
       THEN /\ error' = [kind |-> "FileNotFoundError", msg |-> "File not found", names |-> <<>>]
            /\ pc' = "failed"
       ELSE /\ error' = error
            /\ pc' = "args"
    /\ UNCHANGED <<inputs, date_from, date_to, readPos, totals, processed_rows,
                   skipped_rows, outcome, printed, exportFile>>

\* "if args.date_from": None and "" are false
Given(arg) == arg # None /\ arg # <<>>

\* the checks of --from and --to without the check of their order
ArgsError_no_order_check(from, to) ==
    LET df == IF Given(from) THEN parse_date(from) ELSE NoValue
        dt == IF Given(to) THEN parse_date(to) ELSE NoValue
    IN  IF Given(from) /\ ~df.ok
        THEN [kind |-> "ValueError", msg |-> "Invalid --from date format. Use YYYY-MM-DD.",
              names |-> <<>>]
        ELSE IF Given(to) /\ ~dt.ok
        THEN [kind |-> "ValueError", msg |-> "Invalid --to date format. Use YYYY-MM-DD.",
              names |-> <<>>]
        ELSE NoError

\* lines 157-165: the error raised, or NoError
ArgsError(from, to) ==
    LET df == IF Given(from) THEN parse_date(from) ELSE NoValue
        dt == IF Given(to) THEN parse_date(to) ELSE NoValue
    IN  IF Given(from) /\ ~df.ok
        THEN [kind |-> "ValueError", msg |-> "Invalid --from date format. Use YYYY-MM-DD.",
              names |-> <<>>]
        ELSE IF Given(to) /\ ~dt.ok
        THEN [kind |-> "ValueError", msg |-> "Invalid --to date format. Use YYYY-MM-DD.",
              names |-> <<>>]
        ELSE IF df.ok /\ dt.ok /\ df.val > dt.val
        THEN [kind |-> "ValueError", msg |-> "--from date cannot be after --to date.",
              names |-> <<>>]
        ELSE NoError

\* lines 157-167, up to the call of analyze_expenses
MainParseDates ==
    /\ pc = "args"
    /\ date_from' = IF Given(argFrom) THEN parse_date(argFrom) ELSE NoValue
    /\ date_to' = IF Given(argTo) THEN parse_date(argTo) ELSE NoValue
    /\ error' = ArgsError(argFrom, argTo)
    /\ pc' = IF error' # NoError THEN "failed" ELSE "analyze"
    /\ UNCHANGED <<inputs, readPos, totals, processed_rows, skipped_rows, outcome,
                   printed, exportFile>>

\* lines 168-169
MainPrint ==
    /\ pc = "returned"
    /\ \E ups \in SUBSET HalfCells(totals) :
          printed' = [shown |-> TRUE,
                      empty |-> print_summary(totals, ups).empty,
                      total |-> print_summary(totals, ups).total,
                      lines |-> print_summary(totals, ups).lines,
                      processed |-> processed_rows, skipped |-> skipped_rows]
    /\ pc' = "printed"
    /\ UNCHANGED <<inputs, date_from, date_to, readPos, totals, processed_rows,
                   skipped_rows, outcome, error, exportFile>>

\* lines 171-174
MainExport ==
    /\ pc = "printed"
    /\ IF argExport
       THEN \E ups \in SUBSET HalfCells(totals) :
               exportFile' = export_summary_csv(totals, ups)
       ELSE exportFile' = exportFile
    /\ pc' = "done"
    /\ UNCHANGED <<inputs, date_from, date_to, readPos, totals, processed_rows,
                   skipped_rows, outcome, error, printed>>

-----------------------------------------------------------------------------
(* Inputs: header rows, dates, data rows *)

H_canon == <<T_date, T_category, T_amount>>

H_title == <<<<"D", "a", "t", "e">>, <<"C", "a", "t", "e", "g", "o", "r", "y">>, <<"A", "m", "o", "u", "n", "t">>>>

H_padded == <<<<" ", "d", "a", "t", "e">>, <<"c", "a", "t", "e", "g", "o", "r", "y", " ">>, <<" ", "A", "m", "o", "u", "n", "t", " ">>>>

H_extra == <<T_date, T_category, T_amount, <<"n", "o", "t", "e">>>>

H_reordered == <<T_amount, <<"n", "o", "t", "e">>, T_date, T_category>>

H_blank_name == <<T_date, <<>>, T_category, T_amount>>

H_no_amount == <<T_date, T_category>>

H_only_amount == <<<<"A", "m", "o", "u", "n", "t">>>>

H_unrelated == <<<<"n", "o", "t", "e">>>>

H_none == <<>>

Headers == {H_canon, H_title, H_padded, H_extra, H_reordered, H_blank_name,
            H_no_amount, H_only_amount, H_unrelated, H_none}

D_2023_12_31 == <<"2", "0", "2", "3", "-", "1", "2", "-", "3", "1">>

D_2024_01_01 == <<"2", "0", "2", "4", "-", "0", "1", "-", "0", "1">>

D_2024_01_05 == <<" ", "2", "0", "2", "4", "-", "1", "-", "5", " ">>

D_2024_01_31 == <<"2", "0", "2", "4", "-", "0", "1", "-", "3", "1">>

D_2024_02_01 == <<"2", "0", "2", "4", "-", "0", "2", "-", "0", "1">>

D_2024_02_30 == <<"2", "0", "2", "4", "-", "0", "2", "-", "3", "0">>

D_slashes == <<"0", "1", "/", "0", "2", "/", "2", "0", "2", "4">>

Row(date, category, amount) == [date |-> date, category |-> category, amount |-> amount]

\* rows with a category and an amount, one per kind of date
DatedRows ==
    {Row(d, <<"F">>, <<"5">>) :
        d \in {<<>>, D_2023_12_31, D_2024_01_01, D_2024_01_05, D_2024_01_31,
               D_2024_02_01, D_2024_02_30, D_slashes}}

\* rows inside the range, one per kind of category and amount
FieldRows ==
    {Row(D_2024_01_05, c, <<"5">>) : c \in {<<>>, <<" ">>, <<" ", "F", " ">>, <<"f">>}}
    \cup {Row(D_2024_01_05, <<"F">>, a) :
            a \in {<<>>, <<"a">>, <<"-", "5">>, <<"0">>, <<"$", "1", ",", "5">>,
                   <<".", "0", "0", "4">>}}

RowSet == DatedRows \cup FieldRows

\* the rows of the files a whole run is followed on
MainRows ==
    {Row(D_2024_01_01, <<"F">>, <<"5">>), Row(D_2024_02_01, <<"G">>, <<"$", "1", ",", "5">>),
     Row(<<>>, <<"F">>, <<"a">>), Row(D_2024_01_31, <<"F">>, <<"-", "5">>)}

FromArgs == {None, <<>>, D_2024_01_01, D_2024_02_01, D_slashes}

ToArgs == {None, D_2024_01_31, D_2024_02_30}

\* the characters amount texts are made of; b stands for any other character
AmountChars == {"5", "0", ".", "-", ",", "$", "£", " ", "b"}

\* the amounts the specification gives as examples
AmountExamples ==
    {<<"£", "1", ",", "2", "0", "0", ".", "5", "0">>, <<"a", "b", "c">>, <<" ", " ", "1", "2", ".", "5", "0", " ", " ">>,
     <<"£", "1", "2", ".", "5", "0">>, <<"+", "5">>}

AmountTexts == SeqsUpTo(AmountChars, MaxAmountLen) \cup AmountExamples

-----------------------------------------------------------------------------
(* Specifications *)

Fresh ==
    /\ readPos = 0
    /\ totals = <<>>
    /\ processed_rows = 0
    /\ skipped_rows = 0
    /\ outcome = <<>>
    /\ error = NoError
    /\ printed = NotPrinted
    /\ exportFile = NoFile

\* a whole run of main
Init ==
    /\ fileExists \in BOOLEAN
    /\ argFrom \in FromArgs
    /\ argTo \in ToArgs
    /\ argExport \in BOOLEAN
    /\ fieldnames \in {H_canon, H_title, H_no_amount, H_none}
    /\ rows \in SeqsUpTo(MainRows, MaxRows)
    /\ pc = "main"
    /\ date_from = NoValue
    /\ date_to = NoValue
    /\ Fresh

Next ==
    \/ MainCheckFile
    \/ MainParseDates
    \/ AnalyzeOpen
    \/ AnalyzeRow
    \/ AnalyzeReturn
    \/ MainPrint
    \/ MainExport

Spec == Init /\ [][Next]_vars

\* analyze_expenses, from its call by main at line 167
InitAnalyze ==
    /\ fileExists = TRUE
    /\ argFrom \in {None, D_2024_01_01}
    /\ argTo \in {None, D_2024_01_31}
    /\ argExport = FALSE
    /\ fieldnames \in Headers
    /\ rows \in SeqsUpTo(RowSet, MaxRows)
    /\ pc = "analyze"
    /\ date_from = (IF Given(argFrom) THEN parse_date(argFrom) ELSE NoValue)
    /\ date_to = (IF Given(argTo) THEN parse_date(argTo) ELSE NoValue)
    /\ Fresh

NextAnalyze ==
    \/ AnalyzeOpen
    \/ AnalyzeRow
    \/ AnalyzeReturn

SpecAnalyze == InitAnalyze /\ [][NextAnalyze]_vars

\* analyze_expenses on a one-row file, over every amount text
InitAmount ==
    /\ fileExists = TRUE
    /\ argFrom = None
    /\ argTo = None
    /\ argExport = FALSE
    /\ fieldnames = H_canon
    /\ \E a \in AmountTexts : rows = <<Row(<<>>, <<"F">>, a)>>
    /\ pc = "analyze"
    /\ date_from = NoValue
    /\ date_to = NoValue
    /\ Fresh

SpecAmount == InitAmount /\ [][NextAnalyze]_vars

\* the category names of the first n letters
CatNames(n) == {<<Letters[i]>> : i \in 1..n}

\* one hundredth is Cent: amounts with and without a fraction of a hundredth
TotalValues ==
    {-Cent, 0, (4 * Cent) \div 10, Cent \div 2, (9 * Cent) \div 10, Cent, 3 * Cent}

\* the dicts of at most n keys, in every insertion order
TotalsUpTo(n) ==
    {t \in SeqsUpTo([category : CatNames(n), amount : TotalValues], n) :
        \A i, j \in 1..Len(t) : i # j => t[i].category # t[j].category}

\* print_summary and export_summary_csv on any totals, from line 168
InitExport ==
    /\ fileExists = TRUE
    /\ argFrom = None
    /\ argTo = None
    /\ argExport = TRUE
    /\ fieldnames = H_canon
    /\ rows = <<>>
    /\ pc = "returned"
    /\ date_from = NoValue
    /\ date_to = NoValue
    /\ readPos = 0
    /\ totals \in TotalsUpTo(MaxCats)
    /\ processed_rows = 0
    /\ skipped_rows = 0
    /\ outcome = <<>>
    /\ error = NoError
    /\ printed = NotPrinted
    /\ exportFile = NoFile

NextExport ==
    \/ MainPrint
    \/ MainExport

SpecExport == InitExport /\ [][NextExport]_vars

-----------------------------------------------------------------------------
(* What the specification says of a row, stated apart from the code's functions *)

\* the text between its first and its last character that is no whitespace
Trimmed(t) ==
    LET inked == {i \in 1..Len(t) : t[i] # " "}
    IN  IF inked = {} THEN <<>>
        ELSE SubSeq(t, CHOOSE i \in inked : \A j \in inked : i <= j,
                       CHOOSE i \in inked : \A j \in inked : j <= i)

NotCurrencyMark(c) == c \notin {"£", "$", ","}

\* the number an amount text denotes, if any
Denoted(t) ==
    IF Trimmed(t) = <<>> THEN NoValue
    ELSE PyFloat(SelectSeq(Trimmed(t), NotCurrencyMark))

RowCategory(i) == Trimmed(rows[i].category)

RowAmount(i) == Denoted(rows[i].amount)

AddedRows == {i \in 1..Len(outcome) : outcome[i] = "added"}

TotalOf(tot, category) ==
    IF HasKey(tot, category)
    THEN tot[CHOOSE i \in 1..Len(tot) : tot[i].category = category].amount
    ELSE 0

\* the sum of the amounts of the added rows among the first n with category c
RECURSIVE SumAdded(_, _)
SumAdded(c, n) ==
    IF n = 0 THEN 0
    ELSE SumAdded(c, n - 1)
         + (IF n \in AddedRows /\ RowCategory(n) = c THEN RowAmount(n).val ELSE 0)

\* the header names as compared: trimmed and lower-cased
HeaderNames == {Lower(Trimmed(h)) : h \in Range(fieldnames)}

MissingColumns == REQUIRED_HEADERS \ HeaderNames

HeaderLacks == fieldnames = <<>> \/ MissingColumns # {}

-----------------------------------------------------------------------------
(* C1 *)

\* C1: at every iteration boundary and at return, the keys of totals are
\* distinct, each key is the trimmed category of a row that was not skipped,
\* and totals[C] is the sum of the amounts of exactly the non-skipped rows
\* whose trimmed category is C.
C1_TotalsAreSums ==
    /\ \A i, j \in 1..Len(totals) : i # j => totals[i].category # totals[j].category
    /\ \A i \in 1..Len(totals) : \E k \in AddedRows : RowCategory(k) = totals[i].category
    /\ \A k \in AddedRows :
          /\ HasKey(totals, RowCategory(k))
          /\ TotalOf(totals, RowCategory(k)) = SumAdded(RowCategory(k), Len(outcome))

\* two rows whose category cells differ but trim to one category were both added
C1_Witness ==
    /\ pc = "returned"
    /\ AddedRows = {1, 2}
    /\ rows[1].category # rows[2].category
    /\ Len(totals) = 1
    /\ totals[1].amount = 10 * Unit

-----------------------------------------------------------------------------
(* C2 *)

\* C2: at every iteration boundary and at return, processed_rows is the number
\* of data rows read, every row read has exactly one outcome (skipped or
\* added), and processed_rows = skipped_rows + the number of rows added.
C2_Counts ==
    pc \in {"loop", "returned"} =>
        /\ processed_rows = readPos
        /\ Len(outcome) = readPos
        /\ skipped_rows = Cardinality({i \in 1..Len(outcome) : outcome[i] = "skipped"})
        /\ processed_rows = skipped_rows + Cardinality(AddedRows)
        /\ (pc = "returned" => readPos = Len(rows))

\* a filtered run that skipped one row for its date and added the other
C2_Witness ==
    /\ pc = "returned"
    /\ date_from.ok
    /\ processed_rows = 2
    /\ skipped_rows = 1
    /\ outcome = <<"skipped", "added">>
    /\ RowCategory(1) # <<>> /\ RowAmount(1).ok

-----------------------------------------------------------------------------
(* C3 *)

\* the date filter as the specification states it
InDateRange(date) ==
    \/ ~date_from.ok /\ ~date_to.ok
    \/ /\ parse_date(date).ok
       /\ date_from.ok => date_from.val <= parse_date(date).val
       /\ date_to.ok => parse_date(date).val <= date_to.val

\* C3: a row with a non-empty category and a parseable amount is added to
\* totals if and only if no date bound is configured, or its date parses and
\* lies within the configured bounds, the bounds included.
C3_DateFilter ==
    \A i \in 1..Len(outcome) :
        (RowCategory(i) # <<>> /\ RowAmount(i).ok) =>
            (outcome[i] = "added" <=> InDateRange(rows[i].date))

\* The same statement for the files whose header spells the three names
\* exactly: this one is an invariant of SpecAnalyze.
DateFilterUnderExactHeader == (REQUIRED_HEADERS \subseteq Range(fieldnames)) => C3_DateFilter

-----------------------------------------------------------------------------
(* C4 *)

-----------------------------------------------------------------------------
(* C5 *)

BadArgs ==
    \/ Given(argFrom) /\ ~parse_date(argFrom).ok
    \/ Given(argTo) /\ ~parse_date(argTo).ok
    \/ /\ Given(argFrom) /\ Given(argTo)
       /\ parse_date(argFrom).ok /\ parse_date(argTo).ok
       /\ parse_date(argFrom).val > parse_date(argTo).val

TerminalInput == ~fileExists \/ BadArgs \/ HeaderLacks

\* C5: in a run of main with a missing input file, a malformed --from or --to,
\* from later than to, or a header row that lacks columns, the summary is never
\* printed and the export file never written; an error ends the run; and the
\* export file exists only once the arguments were validated and the whole
\* analysis and the printing completed without error, with one line per
\* category.
C5_ErrorsAbort ==
    /\ TerminalInput =>
          /\ ~printed.shown
          /\ ~exportFile.exists
          /\ pc \notin {"returned", "printed", "done"}
    /\ error # NoError =>
          /\ pc = "failed"
          /\ TerminalInput
    /\ pc = "failed" => error # NoError /\ ~ENABLED Next
    /\ exportFile.exists =>
          /\ argExport
          /\ pc = "done"
          /\ error = NoError
          /\ printed.shown
          /\ readPos = Len(rows)
          /\ exportFile.header = ExportHeader
          /\ Len(exportFile.lines) = Len(totals)

\* a run with --export that got past the arguments and failed on the header
C5_Witness ==
    /\ pc = "failed"
    /\ argExport
    /\ fileExists
    /\ ~BadArgs
    /\ date_from.ok
    /\ rows # <<>>
    /\ error.kind = "ValueError"

-----------------------------------------------------------------------------
(* C6 *)

Keys(tot) == {tot[i].category : i \in 1..Len(tot)}

NeverDecreases ==
    /\ \A c \in Keys(totals) \cup Keys(totals') : TotalOf(totals', c) >= TotalOf(totals, c)
    /\ \A c \in Keys(totals') : TotalOf(totals', c) >= 0

\* C6 as stated: for every input, no step lowers the total of a category and
\* every total is >= 0.
C6_OnlyIncreases == [][NeverDecreases]_vars

NoNegativeAmount == \A i \in 1..Len(rows) : RowAmount(i).ok => RowAmount(i).val >= 0

\* C6 amended: for the files in which no amount parses to a negative number,
\* no step lowers the total of a category and every total is >= 0.
C6_IncreasesWithoutNegatives == [][NoNegativeAmount => NeverDecreases]_vars

\* two rows of amount 5 were added to one category
C6_Witness ==
    /\ pc = "returned"
    /\ NoNegativeAmount
    /\ AddedRows = {1, 2}
    /\ Len(totals) = 1
    /\ totals[1].amount = 10 * Unit
    /\ rows[1].category = rows[2].category

-----------------------------------------------------------------------------
(* C7 *)

RECURSIVE SumColumn(_)
SumColumn(lines) == IF lines = <<>> THEN 0 ELSE Head(lines).amount + SumColumn(Tail(lines))

\* C7 as stated: the amount column of the export sums to the grand total
\* rounded to 2 decimal places (whichever way an exact half is rounded).
C7_RoundTrip ==
    exportFile.exists =>
        \E up \in BOOLEAN :
            SumColumn(exportFile.lines) = RoundDiv(SumAmounts(totals), Cent, up)

\* C7 amended: the amount column of the export sums to within half a hundredth
\* per category of the grand total, and to the grand total itself when every
\* total is a whole number of hundredths.
C7_RoundTripWithinHalfCents ==
    exportFile.exists =>
        /\ 2 * Abs(SumColumn(exportFile.lines) * Cent - SumAmounts(totals))
              <= Len(totals) * Cent
        /\ (\A i \in 1..Len(totals) : totals[i].amount % Cent = 0)
              => SumColumn(exportFile.lines) * Cent = SumAmounts(totals)

\* an export of totals with fractions of a hundredth whose column sum is not
\* the rounded grand total
C7_Witness ==
    /\ exportFile.exists
    /\ Len(totals) >= 2
    /\ \E i \in 1..Len(totals) : totals[i].amount % Cent # 0
    /\ \A up \in BOOLEAN :
          SumColumn(exportFile.lines) # RoundDiv(SumAmounts(totals), Cent, up)

-----------------------------------------------------------------------------
(* C8 *)

Categories(lines) == [i \in 1..Len(lines) |-> lines[i].category]

\* C8: the export holds the header category,amount,percent_of_total and one
\* line per key of totals (none for empty totals), ordered by non-increasing
\* total, and its categories are in the order print_summary printed them.
C8_ExportRows ==
    exportFile.exists =>
        /\ exportFile.header = <<"category", "amount", "percent_of_total">>
        /\ Len(exportFile.lines) = Len(totals)
        /\ Range(Categories(exportFile.lines)) = Keys(totals)
        /\ \A i \in 1..(Len(exportFile.lines) - 1) :
              TotalOf(totals, exportFile.lines[i].category)
                  >= TotalOf(totals, exportFile.lines[i + 1].category)
        /\ printed.shown
        /\ IF printed.empty
           THEN totals = <<>> /\ exportFile.lines = <<>>
           ELSE Categories(printed.lines) = Categories(exportFile.lines)

\* an export of three categories, two of them equal and behind a smaller one
C8_Witness ==
    /\ exportFile.exists
    /\ Len(totals) = 3
    /\ totals[1].amount < totals[2].amount
    /\ totals[2].amount = totals[3].amount
    /\ Categories(exportFile.lines)
          = <<totals[2].category, totals[3].category, totals[1].category>>

-----------------------------------------------------------------------------
(* C9 *)

\* C9: once the one row of the file is processed, no error was raised; if its
\* amount, trimmed and with every £, $ and comma removed, denotes a number,
\* that number is the total of the row's category; otherwise (blank, a lone
\* currency symbol, not a number) the row is skipped and totals is unchanged.
C9_ParseAmount ==
    readPos = 1 =>
        /\ error = NoError
        /\ processed_rows = 1
        /\ IF RowAmount(1).ok
           THEN /\ totals = <<[category |-> RowCategory(1), amount |-> RowAmount(1).val]>>
                /\ skipped_rows = 0
           ELSE /\ totals = <<>>
                /\ skipped_rows = 1
        /\ rows[1].amount = <<"£", "1", ",", "2", "0", "0", ".", "5", "0">> => TotalOf(totals, <<"F">>) = 120050 * Cent
        /\ rows[1].amount \in {<<>>, <<" ">>, <<"£">>, <<"$", ",">>, <<"a", "b", "c">>} => totals = <<>>

\* the amount of the specification's example was parsed and added
C9_Witness ==
    /\ pc = "returned"
    /\ rows[1].amount = <<"£", "1", ",", "2", "0", "0", ".", "5", "0">>
    /\ totals = <<[category |-> <<"F">>, amount |-> 120050 * Cent]>>

-----------------------------------------------------------------------------
(* C10 *)

\* the result of the analysis of the first n rows under the header row names
RECURSIVE Analysis(_, _)
Analysis(names, n) ==
    IF n = 0 THEN EmptyAcc
    ELSE RowStep(Analysis(names, n - 1), DictRow(names, rows[n]), date_from, date_to)

\* C10: for every file whose header passes validation, analyze_expenses
\* returns the totals and counts it returns for the same rows under the header
\* date,category,amount.
C10_HeaderSpellingIgnored ==
    pc = "returned" => Acc = Analysis(H_canon, Len(rows))

====
